------------------------------ MODULE Spec2Model ------------------------------
(***************************************************************************)
(* A model of scraper/example_scraper.py: the country normalizer, the      *)
(* header locator / column selector / reshaper of tidy_excel, the sheet    *)
(* loop of tidy_excel and the source loop of run().                        *)
(*                                                                         *)
(* Text is modelled as a sequence of one-character strings, so that the    *)
(* regular expressions, strip(), lower(), the substring tests and the      *)
(* dictionary lookups of the source are computed and not assumed.  Two     *)
(* accented letters are written "o^" (o circumflex) and "c," (c cedilla).  *)
(***************************************************************************)
EXTENDS Integers, Sequences, FiniteSets, TLC

VARIABLES
    raw, norm, norm_line,                                  \* one call of normalize_country
    grid, stage, header_idx, country_col, year_cols, long, \* one sheet pass of tidy_excel
    books, net, order, pos, pc, fetched,                   \* run()
    sheet_i, reads, ret, tidy_exit,                        \* the tidy_excel call of run()
    all_data, files, csv

norm_vars  == <<raw, norm, norm_line>>
sheet_vars == <<grid, stage, header_idx, country_col, year_cols, long>>
run_vars   == <<books, net, order, pos, pc, fetched, sheet_i, reads, ret, tidy_exit,
               all_data, files, csv>>
vars       == <<norm_vars, sheet_vars, run_vars>>

(***************************************************************************)
(* Values that are not text: Python's None, pandas' NaN.                   *)
(***************************************************************************)
None == <<"None">>
NaN  == <<"NaN">>

(***************************************************************************)
(* Characters.  CodeOrder lists the characters the model uses in code      *)
(* point order; Python compares str values by code point.                  *)
(***************************************************************************)
Digits  == <<"0","1","2","3","4","5","6","7","8","9">>
Uppers  == <<"A","B","C","D","E","F","G","H","I","J","K","L","M","N","O","P","Q","R","S","T","U","V","W","X","Y","Z">>
Lowers  == <<"a","b","c","d","e","f","g","h","i","j","k","l","m","n","o","p","q","r","s","t","u","v","w","x","y","z">>
CodeOrder ==
    <<" ", "'", "(", ")", ",", "-", ".", "/">> \o Digits \o Uppers \o <<"_">> \o Lowers
    \o <<"c,", "o^">>

Range(s) == {s[i] : i \in DOMAIN s}

IndexOf(c, s) == CHOOSE i \in DOMAIN s : s[i] = c

Ord(c) == IndexOf(c, CodeOrder)

IsDigit(c) == c \in Range(Digits)
IsSpace(c) == c = " "
\* \w of the re module: letters, digits and the underscore
IsWord(c) == c \in Range(Digits) \cup Range(Uppers) \cup Range(Lowers) \cup {"_", "c,", "o^"}

DigitVal(c) == IndexOf(c, Digits) - 1

LowerChar(c) == IF c \in Range(Uppers) THEN Lowers[IndexOf(c, Uppers)] ELSE c

\* str.lower()
Lower(s) == [i \in DOMAIN s |-> LowerChar(s[i])]

\* unidecode(): ASCII passes through, accented letters fold to their base letter
UnidecodeChar(c) == CASE c = "o^" -> "o" [] c = "c," -> "c" [] OTHER -> c

Unidecode(s) == [i \in DOMAIN s |-> UnidecodeChar(s[i])]

RECURSIVE LStrip(_)
LStrip(s) == IF s = << >> \/ ~IsSpace(Head(s)) THEN s ELSE LStrip(Tail(s))

RECURSIVE RStrip(_)
RStrip(s) == IF s = << >> \/ ~IsSpace(s[Len(s)]) THEN s ELSE RStrip(SubSeq(s, 1, Len(s) - 1))

\* str.strip()
Strip(s) == RStrip(LStrip(s))

\* w in s, for str
Contains(s, w) == \E i \in 1..(Len(s) - Len(w) + 1) : SubSeq(s, i, i + Len(w) - 1) = w

\* str(x) of a cell: NaN prints as "nan"
Str(x) == IF x = NaN THEN <<"n","a","n">> ELSE x

\* re.sub(r"\([^)]*\)", "", s): each "(" up to the first ")" after it is removed
RECURSIVE SubParens(_)
SubParens(s) ==
    IF s = << >> THEN << >>
    ELSE IF Head(s) = "(" /\ \E j \in 2..Len(s) : s[j] = ")"
         THEN LET j == CHOOSE k \in 2..Len(s) : s[k] = ")" /\ \A m \in 2..(k - 1) : s[m] # ")"
              IN  SubParens(SubSeq(s, j + 1, Len(s)))
         ELSE <<Head(s)>> \o SubParens(Tail(s))

\* the end of the longest run of characters satisfying the test that starts at i (i - 1 if none)
RECURSIVE RunEnd(_, _, _)
RunEnd(s, i, digit) ==
    IF i <= Len(s) /\ (IF digit THEN IsDigit(s[i]) ELSE IsSpace(s[i]))
    THEN RunEnd(s, i + 1, digit) ELSE i - 1

\* re.sub(r",\s*\d+\b", "", s): a comma, blanks, a whole number not followed by a word character
RECURSIVE SubCommaDigits(_)
SubCommaDigits(s) ==
    IF s = << >> THEN << >>
    ELSE LET sp == RunEnd(s, 2, FALSE)
             dg == RunEnd(s, sp + 1, TRUE)
         IN  IF Head(s) = "," /\ dg > sp /\ (dg = Len(s) \/ ~IsWord(s[dg + 1]))
             THEN SubCommaDigits(SubSeq(s, dg + 1, Len(s)))
             ELSE <<Head(s)>> \o SubCommaDigits(Tail(s))

(***************************************************************************)
(* The country normalizer.                                                 *)
(***************************************************************************)
\* ISO_NAMES: the lower-cased, accent-folded name / official_name / common_name
\* entries of the ISO 3166-1 table; the entries the labels below can reach.
ISO_NAMES == {
    <<"c","o","n","g","o">>, <<"r","e","p","u","b","l","i","c"," ","o","f"," ","t","h","e"," ","c","o","n","g","o">>, <<"c","o","n","g","o",","," ","t","h","e"," ","d","e","m","o","c","r","a","t","i","c"," ","r","e","p","u","b","l","i","c"," ","o","f"," ","t","h","e">>,
    <<"c","o","t","e"," ","d","'","i","v","o","i","r","e">>, <<"r","e","p","u","b","l","i","c"," ","o","f"," ","c","o","t","e"," ","d","'","i","v","o","i","r","e">>,
    <<"v","i","e","t"," ","n","a","m">>, <<"v","i","e","t","n","a","m">>, <<"s","o","c","i","a","l","i","s","t"," ","r","e","p","u","b","l","i","c"," ","o","f"," ","v","i","e","t"," ","n","a","m">>,
    <<"r","u","s","s","i","a","n"," ","f","e","d","e","r","a","t","i","o","n">>,
    <<"i","r","a","n",","," ","i","s","l","a","m","i","c"," ","r","e","p","u","b","l","i","c"," ","o","f">>, <<"i","s","l","a","m","i","c"," ","r","e","p","u","b","l","i","c"," ","o","f"," ","i","r","a","n">>,
    <<"s","y","r","i","a","n"," ","a","r","a","b"," ","r","e","p","u","b","l","i","c">>,
    <<"t","a","n","z","a","n","i","a",","," ","u","n","i","t","e","d"," ","r","e","p","u","b","l","i","c"," ","o","f">>, <<"u","n","i","t","e","d"," ","r","e","p","u","b","l","i","c"," ","o","f"," ","t","a","n","z","a","n","i","a">>, <<"t","a","n","z","a","n","i","a">>,
    <<"l","a","o"," ","p","e","o","p","l","e","'","s"," ","d","e","m","o","c","r","a","t","i","c"," ","r","e","p","u","b","l","i","c">>,
    <<"b","o","l","i","v","i","a",","," ","p","l","u","r","i","n","a","t","i","o","n","a","l"," ","s","t","a","t","e"," ","o","f">>, <<"p","l","u","r","i","n","a","t","i","o","n","a","l"," ","s","t","a","t","e"," ","o","f"," ","b","o","l","i","v","i","a">>, <<"b","o","l","i","v","i","a">>,
    <<"v","e","n","e","z","u","e","l","a",","," ","b","o","l","i","v","a","r","i","a","n"," ","r","e","p","u","b","l","i","c"," ","o","f">>, <<"b","o","l","i","v","a","r","i","a","n"," ","r","e","p","u","b","l","i","c"," ","o","f"," ","v","e","n","e","z","u","e","l","a">>, <<"v","e","n","e","z","u","e","l","a">>,
    <<"k","o","r","e","a",","," ","d","e","m","o","c","r","a","t","i","c"," ","p","e","o","p","l","e","'","s"," ","r","e","p","u","b","l","i","c"," ","o","f">>, <<"d","e","m","o","c","r","a","t","i","c"," ","p","e","o","p","l","e","'","s"," ","r","e","p","u","b","l","i","c"," ","o","f"," ","k","o","r","e","a">>,
    <<"n","o","r","t","h"," ","k","o","r","e","a">>, <<"k","o","r","e","a",","," ","r","e","p","u","b","l","i","c"," ","o","f">>, <<"s","o","u","t","h"," ","k","o","r","e","a">>,
    <<"u","n","i","t","e","d"," ","k","i","n","g","d","o","m">>, <<"u","n","i","t","e","d"," ","k","i","n","g","d","o","m"," ","o","f"," ","g","r","e","a","t"," ","b","r","i","t","a","i","n"," ","a","n","d"," ","n","o","r","t","h","e","r","n"," ","i","r","e","l","a","n","d">>,
    <<"u","n","i","t","e","d"," ","s","t","a","t","e","s">>, <<"u","n","i","t","e","d"," ","s","t","a","t","e","s"," ","o","f"," ","a","m","e","r","i","c","a">>,
    <<"f","r","a","n","c","e">>, <<"f","r","e","n","c","h"," ","r","e","p","u","b","l","i","c">>, <<"c","h","i","n","a">>, <<"p","e","o","p","l","e","'","s"," ","r","e","p","u","b","l","i","c"," ","o","f"," ","c","h","i","n","a">>,
    <<"g","e","r","m","a","n","y">>, <<"f","e","d","e","r","a","l"," ","r","e","p","u","b","l","i","c"," ","o","f"," ","g","e","r","m","a","n","y">>, <<"b","r","a","z","i","l">>, <<"c","a","n","a","d","a">>, <<"i","n","d","i","a">>,
    <<"s","i","n","g","a","p","o","r","e">>, <<"r","e","p","u","b","l","i","c"," ","o","f"," ","s","i","n","g","a","p","o","r","e">>, <<"p","e","r","u">>, <<"r","e","p","u","b","l","i","c"," ","o","f"," ","p","e","r","u">> }

ALIASES == <<
    << <<"C","o","n","g","o"," ","(","K","i","n","s","h","a","s","a",")">>,   <<"D","e","m","o","c","r","a","t","i","c"," ","R","e","p","u","b","l","i","c"," ","o","f"," ","t","h","e"," ","C","o","n","g","o">> >>,
    << <<"C","o","n","g","o",","," ","D","e","m","."," ","R","e","p",".">>,   <<"D","e","m","o","c","r","a","t","i","c"," ","R","e","p","u","b","l","i","c"," ","o","f"," ","t","h","e"," ","C","o","n","g","o">> >>,
    << <<"C","o","n","g","o">>,              <<"R","e","p","u","b","l","i","c"," ","o","f"," ","t","h","e"," ","C","o","n","g","o">> >>,
    << <<"I","v","o","r","y"," ","C","o","a","s","t">>,        <<"C","o^","t","e"," ","d","'","I","v","o","i","r","e">> >>,
    << <<"V","i","e","t"," ","N","a","m">>,           <<"V","i","e","t","n","a","m">> >>,
    << <<"R","u","s","s","i","a","n"," ","F","e","d","e","r","a","t","i","o","n">>, <<"R","u","s","s","i","a">> >>,
    << <<"I","r","a","n">>,               <<"I","r","a","n",","," ","I","s","l","a","m","i","c"," ","R","e","p","u","b","l","i","c"," ","o","f">> >>,
    << <<"S","y","r","i","a">>,              <<"S","y","r","i","a","n"," ","A","r","a","b"," ","R","e","p","u","b","l","i","c">> >>,
    << <<"T","a","n","z","a","n","i","a">>,           <<"T","a","n","z","a","n","i","a",","," ","U","n","i","t","e","d"," ","R","e","p","u","b","l","i","c"," ","o","f">> >>,
    << <<"L","a","o","s">>,               <<"L","a","o"," ","P","e","o","p","l","e","'","s"," ","D","e","m","o","c","r","a","t","i","c"," ","R","e","p","u","b","l","i","c">> >>,
    << <<"B","o","l","i","v","i","a">>,            <<"B","o","l","i","v","i","a",","," ","P","l","u","r","i","n","a","t","i","o","n","a","l"," ","S","t","a","t","e"," ","o","f">> >>,
    << <<"V","e","n","e","z","u","e","l","a">>,          <<"V","e","n","e","z","u","e","l","a",","," ","B","o","l","i","v","a","r","i","a","n"," ","R","e","p","u","b","l","i","c"," ","o","f">> >>,
    << <<"K","o","r","e","a",","," ","N","o","r","t","h">>,       <<"K","o","r","e","a",","," ","D","e","m","o","c","r","a","t","i","c"," ","P","e","o","p","l","e","'","s"," ","R","e","p","u","b","l","i","c"," ","o","f">> >>,
    << <<"K","o","r","e","a",","," ","S","o","u","t","h">>,       <<"K","o","r","e","a",","," ","R","e","p","u","b","l","i","c"," ","o","f">> >>,
    << <<"U","K">>,                 <<"U","n","i","t","e","d"," ","K","i","n","g","d","o","m">> >>,
    << <<"U",".","S",".">>,               <<"U","n","i","t","e","d"," ","S","t","a","t","e","s">> >>,
    << <<"U","S","A">>,                <<"U","n","i","t","e","d"," ","S","t","a","t","e","s">> >>
>>

AliasKeys == {ALIASES[i][1] : i \in DOMAIN ALIASES}

\* ALIASES[k], for a key of the table
AliasOf(k) == ALIASES[CHOOSE i \in DOMAIN ALIASES : ALIASES[i][1] = k][2]

\* ALIASES.get(s, s)
AliasesGet(s) == IF s \in AliasKeys THEN AliasOf(s) ELSE s

BAD_WORDS == {
    <<"t","o","t","a","l">>, <<"g","r","a","n","d">>, <<"o","r","e">>, <<"c","o","n","c","e","n","t","r","a","t","e">>, <<"l","l","c">>, <<"i","n","c">>, <<"c","o","m","p","a","n","y">>,
    <<"m","e","t","a","l","s">>, <<"s","m","e","l","t","e","r">>, <<"r","e","f","i","n","e","r","y">>, <<"p","l","a","n","t">>, <<"m","i","n","e">>, <<"e","s","t","i","m","a","t","e">>, <<"u","n","w","r","o","u","g","h","t">> }

\* the two labels line 71 exempts from the comma test
CommaExempt == { <<"K","o","r","e","a",","," ","N","o","r","t","h">>, <<"K","o","r","e","a",","," ","S","o","u","t","h">> }

\* any(w in low for w in BAD_WORDS)
HasBadWord(low) == \E w \in BAD_WORDS : Contains(low, w)

\* the text the reject tests and the alias lookup see (lines 62-65)
Cleaned(r) == Unidecode(Strip(SubCommaDigits(SubParens(r))))

\* normalize_country, with the line of the return statement that ends the call
Normalize(r) ==
    IF r = None \/ Strip(Str(r)) = << >> THEN [val |-> None, line |-> 61]
    ELSE LET s   == Cleaned(Str(r))
             low == Lower(s)
         IN  IF HasBadWord(low) THEN [val |-> None, line |-> 70]
             ELSE IF "," \in Range(s) /\ s \notin CommaExempt THEN [val |-> None, line |-> 72]
             ELSE LET a == AliasesGet(s)
                  IN  IF Lower(Unidecode(a)) \in ISO_NAMES
                      THEN [val |-> a, line |-> 79]
                      ELSE [val |-> None, line |-> 80]

normalize_country(r) == Normalize(r).val

(***************************************************************************)
(* Labels the normalizer is applied to: every key of the alias table and   *)
(* some other row labels, plain and with the annotations the first         *)
(* two substitutions and strip() remove.                                   *)
(***************************************************************************)
BaseLabels == AliasKeys \cup {
    <<"F","r","a","n","c","e">>, <<"C","h","i","n","a">>, <<"G","e","r","m","a","n","y">>, <<"S","i","n","g","a","p","o","r","e">>, <<"P","e","r","u">>, <<"B","r","a","z","i","l">>,
    <<"K","o","r","e","a",","," ","R","e","p","u","b","l","i","c"," ","o","f">>, <<"C","o","n","g","o"," ","(","B","r","a","z","z","a","v","i","l","l","e",")">>, <<"W","o","r","l","d"," ","t","o","t","a","l">>, <<"G","r","a","n","d"," ","t","o","t","a","l">>,
    <<"G","l","e","n","c","o","r","e"," ","I","n","c">>, <<"O","t","h","e","r">>, <<"f","r","a","n","c,","e">>, <<"F","R","A","N","C","E">>, << >>, <<" ">> }

Decorations == {
    [pre |-> << >>,   post |-> << >>],
    [pre |-> <<" "," ">>, post |-> <<" ">>],
    [pre |-> << >>,   post |-> <<"(","e",")">>],
    [pre |-> << >>,   post |-> <<","," ","3">>],
    [pre |-> << >>,   post |-> <<",","2"," ","(","r",")">>] }

Labels == {d.pre \o b \o d.post : b \in BaseLabels, d \in Decorations}

Pending == <<"pending">>

(***************************************************************************)
(* One sheet: the grid read by pd.read_excel(header=None, dtype=str).      *)
(* A grid is [pad, rows]: pad rows of empty (NaN) cells above the listed   *)
(* rows, so that a grid longer than the scan limit stays a small value.    *)
(* Rows and columns are numbered from 0, as iloc does.                     *)
(***************************************************************************)
ScanLimit == 200
NotFound  == -1

Min(a, b) == IF a <= b THEN a ELSE b

NRows(g) == g.pad + Len(g.rows)

NCols(g) == IF g.rows = << >> THEN 0 ELSE Len(g.rows[1])

\* df.iloc[i]
RowAt(g, i) == IF i < g.pad THEN [j \in 1..NCols(g) |-> NaN] ELSE g.rows[i - g.pad + 1]

\* df.empty
IsEmptyGrid(g) == NRows(g) = 0 \/ NCols(g) = 0

\* YEAR_RE.match: ^(19|20)\d{2}$
YearReMatch(x) ==
    /\ Len(x) = 4
    /\ SubSeq(x, 1, 2) \in { <<"1","9">>, <<"2","0">> }
    /\ IsDigit(x[3]) /\ IsDigit(x[4])

_is_year(x) == YearReMatch(Strip(Str(x)))

country_keywords == << <<"c","o","u","n","t","r","y">>, <<"c","o","u","n","t","r","y"," ","o","r"," ","a","r","e","a">>, <<"c","o","u","n","t","r","y","/","a","r","e","a">>, <<"a","r","e","a">>, <<"l","o","c","a","t","i","o","n">> >>

\* any(k in x for k in country_keywords)
HasKeyword(x) == \E n \in DOMAIN country_keywords : Contains(x, country_keywords[n])

\* df.iloc[i].astype(str).str.strip().str.lower()
LowRow(g, i) == [j \in 1..NCols(g) |-> Lower(Strip(Str(RowAt(g, i)[j])))]

\* has_country and len(year_like) >= 2, lines 110-113
IsHeaderRow(g, i) ==
    LET row == LowRow(g, i)
    IN  /\ \E j \in DOMAIN row : HasKeyword(row[j])
        /\ Cardinality({j \in DOMAIN row : _is_year(row[j])}) >= 2

\* the scan without its break: the last header row among the rows tried wins
Locate_NoBreak(g) ==
    LET hits == {i \in 0..(Min(NRows(g), ScanLimit) - 1) : IsHeaderRow(g, i)}
    IN  IF hits = {} THEN NotFound
        ELSE CHOOSE i \in hits : \A k \in hits : i >= k

\* lines 108-115: rows 0 .. min(len(df), 200) - 1 are tried in order and the loop breaks at
\* the first header row, so header_idx is the least of them, None (NotFound) without one
Locate(g) ==
    LET hits == {i \in 0..(Min(NRows(g), ScanLimit) - 1) : IsHeaderRow(g, i)}
    IN  IF hits = {} THEN NotFound
        ELSE CHOOSE i \in hits : \A k \in hits : i <= k

\* header = df.iloc[header_idx].astype(str).str.strip().tolist()
Header(g, h) == [j \in 1..NCols(g) |-> Strip(Str(RowAt(g, h)[j]))]

\* lines 124-129: the first label that holds a keyword, None when there is none
CountryCol(header) ==
    LET hits == {j \in DOMAIN header : HasKeyword(Lower(Strip(header[j])))}
    IN  IF hits = {} THEN None
        ELSE header[CHOOSE j \in hits : \A k \in hits : j <= k]

\* year_cols = [c for c in work.columns if _is_year(str(c))]
YearCols(header) == SelectSeq(header, _is_year)

\* the positions (from 1) of the columns labelled c, left to right
RECURSIVE PositionsOf(_, _, _)
PositionsOf(header, c, j) ==
    IF j > Len(header) THEN << >>
    ELSE (IF header[j] = c THEN <<j>> ELSE << >>) \o PositionsOf(header, c, j + 1)

\* work[keys]: a label selects every column that carries it, once for each time it is listed
RECURSIVE SelectLabels(_, _)
SelectLabels(header, keys) ==
    IF keys = << >> THEN << >>
    ELSE PositionsOf(header, Head(keys), 1) \o SelectLabels(header, Tail(keys))

\* the columns of use (line 137), as positions in the sheet
UseColumns(header, cc, ycs) == SelectLabels(header, <<cc>> \o ycs)

\* the columns of use labelled "Country" after the rename of line 137
CountryColumns(header, cc, ycs) ==
    LET use == UseColumns(header, cc, ycs)
    IN  SelectSeq(use, LAMBDA j : header[j] = cc \/ header[j] = <<"C","o","u","n","t","r","y">>)

\* the value columns melt() unpivots: every column of use but "Country"
ValueColumns(header, cc, ycs) ==
    LET use == UseColumns(header, cc, ycs)
    IN  SelectSeq(use, LAMBDA j : ~(header[j] = cc \/ header[j] = <<"C","o","u","n","t","r","y">>))

\* use["Country"] is a Series only when one column carries the label; with more it is a
\* DataFrame and .str raises AttributeError (line 138)
Line138Raises(header, cc, ycs) == Len(CountryColumns(header, cc, ycs)) # 1

\* s.replace(",", "")
StripCommas(s) == SelectSeq(s, LAMBDA c : c # ",")

RECURSIVE DigitsValue(_)
DigitsValue(s) == IF s = << >> THEN 0 ELSE 10 * DigitsValue(SubSeq(s, 1, Len(s) - 1)) + DigitVal(s[Len(s)])

\* a float: a number (1234.0 is written 1234) or NaN
Num(v)   == [nan |-> FALSE, val |-> v]
NaNFloat == [nan |-> TRUE, val |-> 0]

\* pd.to_numeric(errors="coerce") on the texts of the model: a run of digits is its value,
\* anything else ("nan", "NA", "--", "") is NaN
to_numeric(s) ==
    IF s # << >> /\ \A i \in DOMAIN s : IsDigit(s[i]) THEN Num(DigitsValue(s)) ELSE NaNFloat

\* work = df.iloc[header_idx + 1:]: the rows below the header (none of them a pad row, a
\* header row being no pad row)
Work(g, h) == SubSeq(g.rows, h - g.pad + 2, Len(g.rows))

\* line 138: the rows whose Country cell is not NaN and not blank
KeptRows(g, h, header, cc, ycs) ==
    LET c == CountryColumns(header, cc, ycs)[1]
    IN  SelectSeq(Work(g, h), LAMBDA r : r[c] # NaN /\ Strip(Str(r[c])) # << >>)

\* the records melt() makes of value column j, one for each kept row, with Year and
\* Production coerced (lines 139-145)
ColumnRecords(rows, header, c, j, commodity) ==
    [i \in 1..Len(rows) |->
        [Country    |-> rows[i][c],
         Year       |-> to_numeric(header[j]),
         Production |-> to_numeric(StripCommas(Str(rows[i][j]))),
         Commodity  |-> commodity]]

RECURSIVE MeltColumns(_, _, _, _, _)
MeltColumns(rows, header, c, cols, commodity) ==
    IF cols = << >> THEN << >>
    ELSE ColumnRecords(rows, header, c, Head(cols), commodity)
         \o MeltColumns(rows, header, c, Tail(cols), commodity)

\* long.dropna(subset=["Year", "Production"])
DropNaNumbers(t) == SelectSeq(t, LAMBDA r : ~r.Year.nan /\ ~r.Production.nan)

\* lines 137-146, when line 138 does not raise
Reshape(g, h, cc, ycs, commodity) ==
    LET header == Header(g, h)
    IN  DropNaNumbers(MeltColumns(KeptRows(g, h, header, cc, ycs), header,
                                  CountryColumns(header, cc, ycs)[1],
                                  ValueColumns(header, cc, ycs), commodity))

\* lines 150-151: normalize the Country of every record, drop the rejected ones
CleanCountries(t) ==
    SelectSeq([i \in DOMAIN t |-> [t[i] EXCEPT !.Country = normalize_country(t[i].Country)]],
              LAMBDA r : r.Country # None)

(***************************************************************************)
(* One pass of the sheet loop of tidy_excel (lines 104-157) as a whole:    *)
(* "skip" for each continue, "raise" for an exception, and the cleaned     *)
(* table otherwise (empty: the loop goes on; not empty: it is returned).   *)
(***************************************************************************)
SheetPass(g, commodity) ==
    IF IsEmptyGrid(g) THEN [kind |-> "skip", table |-> << >>]
    ELSE LET h == Locate(g)
         IN  IF h = NotFound THEN [kind |-> "skip", table |-> << >>]
             ELSE LET header == Header(g, h)
                      cc     == CountryCol(header)
                      ycs    == YearCols(header)
                  IN  IF cc = None \/ Len(ycs) < 2 THEN [kind |-> "skip", table |-> << >>]
                      ELSE IF Line138Raises(header, cc, ycs)
                           THEN [kind |-> "raise", table |-> << >>]
                           ELSE [kind  |-> "table",
                                 table |-> CleanCountries(Reshape(g, h, cc, ycs, commodity))]

(***************************************************************************)
(* Rows and sheets the model reads.                                        *)
(***************************************************************************)
RowTitle         == << <<"P","r","o","d","u","c","t","i","o","n"," ","b","y"," ","c","o","u","n","t","r","y">>, <<"2","0","2","0">>, NaN, NaN >>
RowYearsOnly     == << NaN, <<"2","0","1","9">>, <<"2","0","2","0">>, <<"2","0","2","1">> >>
RowHdrA          == << <<"C","o","u","n","t","r","y">>, <<"1","9","9","0">>, <<"1","9","9","1">>, <<"A","r","e","a">> >>
RowHdrB          == << <<" ","C","o","u","n","t","r","y"," ","o","r"," ","a","r","e","a">>, <<"2","0","1","9">>, <<" ","2","0","2","0"," ">>, <<"2","0","2","1">> >>
RowHdrDupYear    == << <<"C","o","u","n","t","r","y">>, <<"1","9","9","0">>, <<"1","9","9","0"," ">>, <<"1","9","9","1">> >>
RowHdrDupCountry == << <<"C","o","u","n","t","r","y">>, <<"C","o","u","n","t","r","y">>, <<"1","9","9","0">>, <<"1","9","9","1">> >>
RowFrance        == << <<"F","r","a","n","c","e">>, <<"1",",","2","3","4">>, <<"N","A">>, <<"E","u","r","o","p","e">> >>
RowBlank         == << <<" ">>, <<"7">>, NaN, <<"9">> >>
RowPeru          == << <<"P","e","r","u">>, <<"1","2">>, <<"-","-">>, <<"3">> >>
RowTotal         == << <<"W","o","r","l","d"," ","t","o","t","a","l">>, <<"1","0","0">>, <<"2","0","0">>, <<"3","0","0">> >>
RowCongoK        == << <<"C","o","n","g","o"," ","(","K","i","n","s","h","a","s","a",")">>, <<"5">>, <<"6">>, NaN >>
RowCongoB        == << <<"C","o","n","g","o"," ","(","B","r","a","z","z","a","v","i","l","l","e",")">>, <<"9">>, <<"6">>, NaN >>

Rows == { RowTitle, RowYearsOnly, RowHdrA, RowHdrB, RowHdrDupYear, RowHdrDupCountry,
          RowFrance, RowBlank, RowPeru }

MaxRows == 3

SeqsUpTo(S, n) == UNION {[1..k -> S] : k \in 0..n}

\* the rows below the pad of a grid longer than the scan limit
LongRows == { RowHdrA, RowHdrB, RowFrance }

\* a pad that puts the first listed row last in the scan, or first out of it
Pads == {ScanLimit - 1, ScanLimit}

Grids ==
    {[pad |-> 0, rows |-> rs] : rs \in SeqsUpTo(Rows, MaxRows)}
    \cup {[pad |-> p, rows |-> rs] : p \in Pads, rs \in SeqsUpTo(LongRows, MaxRows) \ {<< >>}}

Sheet(rs) == [pad |-> 0, rows |-> rs]

SheetEmpty       == Sheet(<< >>)
SheetNoHeader    == Sheet(<<RowTitle, RowFrance>>)
SheetGoodA       == Sheet(<<RowTitle, RowHdrA, RowCongoK, RowFrance, RowCongoB, RowTotal>>)
SheetGoodB       == Sheet(<<RowHdrB, RowPeru, RowBlank>>)
SheetDupCountry  == Sheet(<<RowHdrDupCountry, RowFrance>>)
SheetAllRejected == Sheet(<<RowHdrA, RowTotal>>)

Sheets == {SheetEmpty, SheetNoHeader, SheetGoodA, SheetGoodB, SheetDupCountry, SheetAllRejected}

MaxSheets == 3

\* a response body: a workbook with its sheets in order, or bytes pd.ExcelFile cannot open
Workbook(ss) == [ok |-> TRUE, sheets |-> ss]
NotAWorkbook == [ok |-> FALSE, sheets |-> << >>]

TidyBooks == {Workbook(ss) : ss \in SeqsUpTo(Sheets, MaxSheets) \ {<< >>}} \cup {NotAWorkbook}

RunBooks == { Workbook(<<SheetNoHeader, SheetGoodA>>),
              Workbook(<<SheetGoodB, SheetGoodA>>),
              Workbook(<<SheetDupCountry, SheetGoodB>>),
              Workbook(<<SheetAllRejected>>) }

\* the keys of COMMODITIES, in the order of the dict
COMMODITIES == << <<"a","l","u","m","i","n","u","m">>, <<"n","i","c","k","e","l">>, <<"c","o","b","a","l","t">>, <<"t","u","n","g","s","t","e","n">> >>

NumSources == 2

Sources == {COMMODITIES[i] : i \in 1..NumSources}

\* what requests.get does: a response with status 200, a response with another status,
\* or an exception (requests.exceptions.Timeout, ConnectionError)
Outcomes == {"200", "404", "Timeout", "ConnectionError"}

Raises(o) == o \in {"Timeout", "ConnectionError"}

Orders(S) ==
    {p \in [1..Cardinality(S) -> S] : \A i, j \in DOMAIN p : i # j => p[i] # p[j]}

(***************************************************************************)
(* Ordering and sorting (line 208).                                        *)
(***************************************************************************)
\* a < b for str: by code point, a proper prefix first
RECURSIVE StrLess(_, _)
StrLess(a, b) ==
    IF b = << >> THEN FALSE
    ELSE IF a = << >> THEN TRUE
    ELSE IF Head(a) # Head(b) THEN Ord(Head(a)) < Ord(Head(b))
    ELSE StrLess(Tail(a), Tail(b))

\* a sort key that leaves Commodity out: sort_values(["Year", "Country"])
KeyLess_NoCommodity(r, q) ==
    \/ r.Year < q.Year
    \/ r.Year = q.Year /\ StrLess(r.Country, q.Country)

\* the sort key of sort_values(["Commodity", "Year", "Country"])
KeyLess(r, q) ==
    \/ StrLess(r.Commodity, q.Commodity)
    \/ /\ r.Commodity = q.Commodity
       /\ \/ r.Year < q.Year
          \/ r.Year = q.Year /\ StrLess(r.Country, q.Country)

\* r put into the sorted t behind every row that is not greater: equal keys keep their order
RECURSIVE InsertRow(_, _)
InsertRow(r, t) ==
    IF t = << >> THEN <<r>>
    ELSE IF KeyLess(r, Head(t)) THEN <<r>> \o t
    ELSE <<Head(t)>> \o InsertRow(r, Tail(t))

\* df.sort_values(by several columns): a stable sort on the key
RECURSIVE SortValues(_)
SortValues(t) ==
    IF t = << >> THEN << >>
    ELSE InsertRow(t[Len(t)], SortValues(SubSeq(t, 1, Len(t) - 1)))

\* pd.concat(all_data, ignore_index=True)
RECURSIVE Concat(_)
Concat(ts) == IF ts = << >> THEN << >> ELSE Head(ts) \o Concat(Tail(ts))

\* df_all["Year"].astype(int): the float of the Year column as an int
YearAsInt(t) == [i \in DOMAIN t |-> [t[i] EXCEPT !.Year = t[i].Year.val]]

\* lines 206-208
OutputTable(ts) == SortValues(YearAsInt(Concat(ts)))

(***************************************************************************)
(* The state of run() and of the tidy_excel call it makes.                 *)
(***************************************************************************)
NoRet == [none |-> TRUE, table |-> << >>]

Returned(t) == [none |-> FALSE, table |-> t]

CurSource == order[pos]

CurBook == books[CurSource]

\* lines 185-198, the request: requests.get raises, or answers with a status
Get ==
    /\ pc = "get"
    /\ pos <= Len(order)
    /\ fetched' = Append(fetched, CurSource)
    /\ IF Raises(net[CurSource])
       THEN /\ pc' = "aborted"
            /\ UNCHANGED <<pos, sheet_i, reads>>
       ELSE IF net[CurSource] = "200"
       THEN /\ pc' = "open"
            /\ sheet_i' = 1
            /\ reads' = << >>
            /\ UNCHANGED pos
       ELSE /\ pos' = pos + 1
            /\ UNCHANGED <<pc, sheet_i, reads>>
    /\ UNCHANGED <<books, order, net, ret, tidy_exit, all_data, files, csv>>

\* line 98: pd.ExcelFile opens the bytes, or raises and the except clause returns None
TidyOpen ==
    /\ pc = "open"
    /\ IF CurBook.ok
       THEN /\ pc' = "sheets"
            /\ UNCHANGED <<ret, tidy_exit>>
       ELSE /\ pc' = "collect"
            /\ ret' = NoRet
            /\ tidy_exit' = "exception"
    /\ UNCHANGED <<books, order, pos, net, sheet_i, reads, fetched, all_data, files, csv>>

\* lines 103-157: one pass of the sheet loop
ReadSheet ==
    /\ pc = "sheets"
    /\ sheet_i <= Len(CurBook.sheets)
    /\ reads' = Append(reads, sheet_i)
    /\ LET out == SheetPass(CurBook.sheets[sheet_i], CurSource)
       IN  IF out.kind = "raise"
           THEN /\ ret' = NoRet
                /\ tidy_exit' = "exception"
                /\ pc' = "collect"
                /\ UNCHANGED sheet_i
           ELSE IF out.kind = "table" /\ out.table # << >>
           THEN /\ ret' = Returned(out.table)
                /\ tidy_exit' = "accepted"
                /\ pc' = "collect"
                /\ UNCHANGED sheet_i
           ELSE /\ sheet_i' = sheet_i + 1
                /\ UNCHANGED <<ret, tidy_exit, pc>>
    /\ UNCHANGED <<books, order, pos, net, fetched, all_data, files, csv>>

\* lines 159-160: the loop ran out of sheets
TidyExhausted ==
    /\ pc = "sheets"
    /\ sheet_i > Len(CurBook.sheets)
    /\ ret' = NoRet
    /\ tidy_exit' = "exhausted"
    /\ pc' = "collect"
    /\ UNCHANGED <<books, order, pos, net, sheet_i, reads, fetched, all_data, files, csv>>

\* lines 192-196: the result of tidy_excel is appended when it holds rows
Collect ==
    /\ pc = "collect"
    /\ all_data' = IF ~ret.none /\ ret.table # << >> THEN Append(all_data, ret.table)
                   ELSE all_data
    /\ pos' = pos + 1
    /\ pc' = "get"
    /\ UNCHANGED <<books, order, net, sheet_i, reads, ret, tidy_exit, fetched, files, csv>>

\* lines 200-209: the probe file, or the two data files (save_csv)
Output ==
    /\ pc = "get"
    /\ pos > Len(order)
    /\ IF all_data = << >>
       THEN /\ files' = files \cup {"probe"}
            /\ UNCHANGED csv
       ELSE /\ files' = files \cup {"latest", "dated"}
            /\ csv' = OutputTable(all_data)
    /\ pc' = "done"
    /\ UNCHANGED <<books, order, pos, net, sheet_i, reads, ret, tidy_exit, fetched, all_data>>

\* tidy_excel as a whole: the value the sheet loop returns for a workbook
RECURSIVE TidyFrom(_, _, _)
TidyFrom(book, commodity, i) ==
    IF i > Len(book.sheets) THEN NoRet
    ELSE LET out == SheetPass(book.sheets[i], commodity)
         IN  IF out.kind = "raise" THEN NoRet
             ELSE IF out.kind = "table" /\ out.table # << >> THEN Returned(out.table)
             ELSE TidyFrom(book, commodity, i + 1)

tidy_excel(book, commodity) == IF book.ok THEN TidyFrom(book, commodity, 1) ELSE NoRet

(***************************************************************************)
(* The specifications.                                                     *)
(***************************************************************************)
NormIdle ==
    /\ raw = << >>
    /\ norm = Pending
    /\ norm_line = 0

SheetIdle ==
    /\ grid = SheetEmpty
    /\ stage = "idle"
    /\ header_idx = NotFound
    /\ country_col = None
    /\ year_cols = << >>
    /\ long = << >>

RunStart ==
    /\ pos = 1
    /\ fetched = << >>
    /\ sheet_i = 1
    /\ reads = << >>
    /\ ret = NoRet
    /\ tidy_exit = "none"
    /\ all_data = << >>
    /\ files = {}
    /\ csv = << >>

RunIdle ==
    /\ books = [s \in {COMMODITIES[1]} |-> NotAWorkbook]
    /\ net = [s \in {COMMODITIES[1]} |-> "200"]
    /\ order = <<COMMODITIES[1]>>
    /\ pc = "idle"
    /\ RunStart

\* run(): every source with a response body and an outcome of its request; the sources
\* are taken in any order (the order of the dict is one of them)
Init ==
    /\ books \in [Sources -> RunBooks]
    /\ net \in [Sources -> Outcomes]
    /\ order \in Orders(Sources)
    /\ pc = "get"
    /\ RunStart
    /\ NormIdle
    /\ SheetIdle

Next ==
    \/ Get /\ UNCHANGED <<norm_vars, sheet_vars>>
    \/ TidyOpen /\ UNCHANGED <<norm_vars, sheet_vars>>
    \/ ReadSheet /\ UNCHANGED <<norm_vars, sheet_vars>>
    \/ TidyExhausted /\ UNCHANGED <<norm_vars, sheet_vars>>
    \/ Collect /\ UNCHANGED <<norm_vars, sheet_vars>>
    \/ Output /\ UNCHANGED <<norm_vars, sheet_vars>>

Spec == Init /\ [][Next]_vars

\* one call tidy_excel(bytes, "aluminum") on the bytes of a 200 response
InitTidy ==
    /\ books \in [{COMMODITIES[1]} -> TidyBooks]
    /\ net = [s \in {COMMODITIES[1]} |-> "200"]
    /\ order = <<COMMODITIES[1]>>
    /\ pc = "open"
    /\ RunStart
    /\ NormIdle
    /\ SheetIdle

NextTidy ==
    \/ TidyOpen /\ UNCHANGED <<norm_vars, sheet_vars>>
    \/ ReadSheet /\ UNCHANGED <<norm_vars, sheet_vars>>
    \/ TidyExhausted /\ UNCHANGED <<norm_vars, sheet_vars>>

SpecTidy == InitTidy /\ [][NextTidy]_vars

(***************************************************************************)
(* One sheet pass, stage by stage.                                         *)
(***************************************************************************)
\* lines 105-118: the empty test and the header scan
SheetLocate ==
    /\ stage = "read"
    /\ IF IsEmptyGrid(grid)
       THEN /\ stage' = "skipped"
            /\ UNCHANGED header_idx
       ELSE /\ header_idx' = Locate(grid)
            /\ stage' = IF header_idx' = NotFound THEN "skipped" ELSE "located"
    /\ UNCHANGED <<grid, country_col, year_cols, long>>

\* lines 120-135: the country column and the year columns
SheetSelect ==
    /\ stage = "located"
    /\ country_col' = CountryCol(Header(grid, header_idx))
    /\ year_cols' = YearCols(Header(grid, header_idx))
    /\ stage' = IF country_col' = None \/ Len(year_cols') < 2 THEN "skipped" ELSE "selected"
    /\ UNCHANGED <<grid, header_idx, long>>

\* lines 137-146: the long table, or the exception of line 138
SheetReshape ==
    /\ stage = "selected"
    /\ IF Line138Raises(Header(grid, header_idx), country_col, year_cols)
       THEN /\ stage' = "raised"
            /\ UNCHANGED long
       ELSE /\ long' = Reshape(grid, header_idx, country_col, year_cols, COMMODITIES[1])
            /\ stage' = "reshaped"
    /\ UNCHANGED <<grid, header_idx, country_col, year_cols>>

\* lines 149-157: the country clean-up; a table with rows is returned
SheetClean ==
    /\ stage = "reshaped"
    /\ long' = CleanCountries(long)
    /\ stage' = IF long' # << >> THEN "returned" ELSE "skipped"
    /\ UNCHANGED <<grid, header_idx, country_col, year_cols>>

InitSheet ==
    /\ grid \in Grids
    /\ stage = "read"
    /\ header_idx = NotFound
    /\ country_col = None
    /\ year_cols = << >>
    /\ long = << >>
    /\ NormIdle
    /\ RunIdle

NextSheet ==
    \/ SheetLocate /\ UNCHANGED <<norm_vars, run_vars>>
    \/ SheetSelect /\ UNCHANGED <<norm_vars, run_vars>>
    \/ SheetReshape /\ UNCHANGED <<norm_vars, run_vars>>
    \/ SheetClean /\ UNCHANGED <<norm_vars, run_vars>>

SpecSheet == InitSheet /\ [][NextSheet]_vars

(***************************************************************************)
(* One call of normalize_country.                                          *)
(***************************************************************************)
NormalizeCall ==
    /\ norm = Pending
    /\ norm' = normalize_country(raw)
    /\ norm_line' = Normalize(raw).line
    /\ UNCHANGED raw

InitNorm ==
    /\ raw \in Labels
    /\ norm = Pending
    /\ norm_line = 0
    /\ SheetIdle
    /\ RunIdle

NextNorm == NormalizeCall /\ UNCHANGED <<sheet_vars, run_vars>>

SpecNorm == InitNorm /\ [][NextNorm]_vars

(***************************************************************************)
(* Properties of the header locator (SpecSheet).                           *)
(***************************************************************************)
\* a cell of row i of g, trimmed and lower-cased
CellText(g, i, j) == Lower(Strip(Str(RowAt(g, i)[j])))

\* row i has a cell holding a country keyword and at least K = 2 cells that are 4-digit years
Qualifies(g, i) ==
    /\ \E j \in 1..NCols(g) : \E n \in DOMAIN country_keywords :
           Contains(CellText(g, i, j), country_keywords[n])
    /\ \E j1, j2 \in 1..NCols(g) :
           /\ j1 # j2
           /\ YearReMatch(CellText(g, i, j1))
           /\ YearReMatch(CellText(g, i, j2))

YearCells(g, i) == Cardinality({j \in 1..NCols(g) : YearReMatch(CellText(g, i, j))})

FirstRows(g) == {i \in 0..(NRows(g) - 1) : i < ScanLimit}

\* C2: the header row is the lowest-index row among the first 200 that has a country
\* keyword cell and at least 2 year cells, whatever later rows hold; the locator finds no
\* header exactly when no row among the first 200 qualifies.
C2_HeaderIsFirstQualifyingRow ==
    stage \in {"located", "skipped", "selected", "reshaped", "raised", "returned"} =>
        LET Q == {i \in FirstRows(grid) : Qualifies(grid, i)}
        IN  /\ (header_idx = NotFound) <=> (Q = {})
            /\ Q # {} => header_idx \in Q /\ \A i \in Q : header_idx <= i

\* a header found above a later row of the first 200 that qualifies with more year cells
C2_Witness ==
    /\ stage = "located"
    /\ header_idx # NotFound
    /\ \E i \in FirstRows(grid) :
           /\ i > header_idx
           /\ Qualifies(grid, i)
           /\ YearCells(grid, i) > YearCells(grid, header_idx)

(***************************************************************************)
(* Properties of column selection and reshaping (SpecSheet).               *)
(***************************************************************************)
\* the positions of the header cells that hold a country keyword / are a year
KeywordPositions(header) ==
    {j \in DOMAIN header : \E n \in DOMAIN country_keywords :
                               Contains(Lower(header[j]), country_keywords[n])}

YearPositions(header) == {j \in DOMAIN header : YearReMatch(header[j])}

\* the elements of a set of numbers, ascending
RECURSIVE Ascending(_)
Ascending(S) ==
    IF S = {} THEN << >>
    ELSE LET m == CHOOSE x \in S : \A y \in S : x <= y
         IN  <<m>> \o Ascending(S \ {m})

\* C10: for every located header row, labels repeated or not, the columns selected are
\* the leftmost keyword column, once, and every year column once, left to right; so a
\* (data row, year column) pair gives at most one record.
C10_ColumnsSelectedOnce ==
    LET header == Header(grid, header_idx)
        kw     == KeywordPositions(header)
        yrs    == YearPositions(header)
    IN  /\ stage \in {"selected", "reshaped", "raised"} =>
               UseColumns(header, country_col, year_cols)
                   = <<CHOOSE j \in kw : \A k \in kw : j <= k>> \o Ascending(yrs)
        /\ stage = "reshaped" =>
               Len(long) <= Len(Work(grid, header_idx)) * Cardinality(yrs)

\* the records the claim allows for the rows below the header: one for each row with a
\* non-blank country cell and each year column whose cell is a number once commas are gone
ParsedCells(g, h) ==
    LET header == Header(g, h)
        kw     == KeywordPositions(header)
        c      == CHOOSE j \in kw : \A k \in kw : j <= k
        work   == Work(g, h)
    IN  {<<i, j>> \in (DOMAIN work) \X YearPositions(header) :
            /\ work[i][c] # NaN
            /\ Strip(work[i][c]) # << >>
            /\ ~to_numeric(StripCommas(Str(work[i][j]))).nan}

RecordOf(g, h, i, j) ==
    LET header == Header(g, h)
        kw     == KeywordPositions(header)
        c      == CHOOSE k \in kw : \A m \in kw : k <= m
        work   == Work(g, h)
    IN  [Country    |-> work[i][c],
         Year       |-> to_numeric(header[j]),
         Production |-> to_numeric(StripCommas(Str(work[i][j]))),
         Commodity  |-> COMMODITIES[1]]

\* C5: once the reshaper has been applied to the selected columns, the records are one
\* for each (row with a non-blank country, year column) whose cell parses as a number,
\* and none for a cell that does not parse.
C5_OneRecordPerParsedCell ==
    stage \in {"reshaped", "raised"} =>
        LET cells == ParsedCells(grid, header_idx)
        IN  /\ Len(long) = Cardinality(cells)
            /\ Range(long) = {RecordOf(grid, header_idx, p[1], p[2]) : p \in cells}

(***************************************************************************)
(* Properties of normalize_country (SpecNorm).                             *)
(***************************************************************************)
\* C6: normalize_country("Congo (Kinshasa)") is the alias target of "Congo (Kinshasa)",
\* "Democratic Republic of the Congo".
C6_CongoKinshasaIsDRC ==
    (raw = <<"C","o","n","g","o"," ","(","K","i","n","s","h","a","s","a",")">> /\ norm # Pending) =>
        /\ norm = AliasOf(<<"C","o","n","g","o"," ","(","K","i","n","s","h","a","s","a",")">>)
        /\ norm = <<"D","e","m","o","c","r","a","t","i","c"," ","R","e","p","u","b","l","i","c"," ","o","f"," ","t","h","e"," ","C","o","n","g","o">>

\* C9: "Korea, North" and "Korea, South" are rejected neither by the marker-word test
\* (line 70) nor by the comma test (line 72); they reach the alias lookup and come back as
\* their alias-table names.
C9_KoreaLabelsExempt ==
    (raw \in CommaExempt /\ norm # Pending) =>
        /\ norm_line \notin {70, 72}
        /\ norm = AliasOf(raw)

(***************************************************************************)
(* Properties of the sheet loop of tidy_excel (SpecTidy).                  *)
(***************************************************************************)
\* sheet i of the book gives a non-empty cleaned table
GoodSheet(book, i) ==
    LET out == SheetPass(book.sheets[i], COMMODITIES[1])
    IN  out.kind = "table" /\ out.table # << >>

SheetRaises(book, i) == SheetPass(book.sheets[i], COMMODITIES[1]).kind = "raise"

\* C1: when tidy_excel returns, the result is the cleaned table of the lowest-index sheet
\* whose cleaned table is non-empty and the sheets read are exactly those up to it; with
\* no such sheet nothing is returned.
C1_FirstNonEmptySheetWins ==
    pc = "collect" =>
        LET book == CurBook
            good == {i \in DOMAIN book.sheets : GoodSheet(book, i)}
        IN  IF good = {} THEN ret.none
            ELSE LET f == CHOOSE i \in good : \A k \in good : i <= k
                 IN  /\ ret = Returned(SheetPass(book.sheets[f], COMMODITIES[1]).table)
                     /\ reads = [i \in 1..f |-> i]

\* C8: when a sheet raises and a later sheet is the first with a non-empty cleaned table,
\* tidy_excel returns the table of that later sheet.
C8_SheetFailureIsLocal ==
    pc = "collect" =>
        \A i, j \in DOMAIN CurBook.sheets :
            (/\ i < j
             /\ SheetRaises(CurBook, i)
             /\ GoodSheet(CurBook, j)
             /\ \A k \in 1..(j - 1) : ~GoodSheet(CurBook, k))
            => (~ret.none /\ tidy_exit = "accepted" /\ j \in Range(reads))

(***************************************************************************)
(* Properties of run() (Spec).                                             *)
(***************************************************************************)
RunEnded == pc \in {"done", "aborted"}

\* C3: a request that fails in any way (exception or status other than 200) leaves its
\* source without a contribution and the run goes on: it ends only after every source
\* has been requested and the output step has been taken.
C3_FetchFailureIsNotFatal ==
    RunEnded =>
        \A s \in Range(fetched) :
            net[s] # "200" =>
                /\ pc = "done"
                /\ Range(fetched) = Sources
                /\ \A t \in Range(all_data) : \A r \in Range(t) : r.Commodity # s

\* C4: a run in which no source yielded data ends with the probe file as its only
\* output; the data files are written only, and the probe file never, when some source
\* yielded data.
C4_ProbeFileOnlyWithoutData ==
    /\ (RunEnded /\ all_data = << >>) => files = {"probe"}
    /\ "probe" \in files => all_data = << >>
    /\ files \cap {"latest", "dated"} # {} => all_data # << >>

\* the accepted tables of the sources, in the order of the COMMODITIES dict
RECURSIVE TablesFrom(_)
TablesFrom(i) ==
    IF i > NumSources THEN << >>
    ELSE LET s == COMMODITIES[i]
             t == tidy_excel(books[s], s)
         IN  (IF net[s] = "200" /\ ~t.none /\ t.table # << >> THEN <<t.table>> ELSE << >>)
             \o TablesFrom(i + 1)

\* r does not come after q in (Commodity, Year, Country) order
KeyNotAfter(r, q) ==
    IF r.Commodity # q.Commodity THEN StrLess(r.Commodity, q.Commodity)
    ELSE IF r.Year # q.Year THEN r.Year < q.Year
    ELSE r.Country = q.Country \/ StrLess(r.Country, q.Country)

\* C7: the table written is the accepted tables concatenated and sorted by (Commodity,
\* Year, Country), and it is the same sequence of rows whatever the order in which the
\* sources were taken.
C7_OutputSortedAndOrderFree ==
    (pc = "done" /\ "latest" \in files) =>
        /\ csv = OutputTable(TablesFrom(1))
        /\ Len(csv) = Len(Concat(all_data))
        /\ Range(csv) = Range(YearAsInt(Concat(all_data)))
        /\ \A i, j \in DOMAIN csv : i < j => KeyNotAfter(csv[i], csv[j])

\* both sources accepted, taken in another order than the dict's, rows moved by the sort
C7_Witness ==
    /\ pc = "done"
    /\ "latest" \in files
    /\ order[1] # COMMODITIES[1]
    /\ Len(all_data) >= 2
    /\ csv # YearAsInt(Concat(all_data))
    /\ \E i \in DOMAIN csv : \E j \in DOMAIN csv :
           /\ i < j
           /\ csv[i].Commodity = csv[j].Commodity
           /\ csv[i].Year = csv[j].Year
           /\ csv[i].Country = csv[j].Country
           /\ csv[i].Production # csv[j].Production

(***************************************************************************)
(* What the code does where it departs from the properties above.          *)
(***************************************************************************)
\* C1: a sheet that raises ends the call with None although the next sheet is good
C1_NoneBeforeGoodSheet ==
    /\ pc = "collect"
    /\ CurBook.sheets = <<SheetDupCountry, SheetGoodA>>
    /\ ret.none
    /\ reads = <<1>>

\* C8: the except clause of tidy_excel ends the call with sheets left unread
C8_ExceptionEndsTheCall ==
    /\ pc = "collect"
    /\ tidy_exit = "exception"
    /\ \E j \in DOMAIN CurBook.sheets : j \notin Range(reads) /\ GoodSheet(CurBook, j)

\* C3: an exception of requests.get ends run() with sources left unrequested
C3_RunAbortedEarly ==
    /\ pc = "aborted"
    /\ Len(fetched) < Len(order)
    /\ files = {}

\* C4: every request fails, the first by an exception: no probe file is written
C4_NoProbeAfterException ==
    /\ pc = "aborted"
    /\ \A s \in Sources : net[s] # "200"
    /\ all_data = << >>
    /\ files = {}

\* C5: a year label that repeats gives two records for France's one cell "1,234"
C5_TwoRecordsForOneCell ==
    /\ stage = "reshaped"
    /\ grid = Sheet(<<RowHdrDupYear, RowFrance>>)
    /\ Len(long) = 2
    /\ long[1] = long[2]
    /\ long[1].Production = Num(1234)

\* C10: a country label that repeats selects two country columns, and line 138 raises
C10_TwoCountryColumns ==
    /\ stage = "raised"
    /\ Len(CountryColumns(Header(grid, header_idx), country_col, year_cols)) = 2

\* C6: the parentheses are removed before the alias lookup, which then finds "Congo"
C6_CongoKinshasaIsCongo ==
    /\ raw = <<"C","o","n","g","o"," ","(","K","i","n","s","h","a","s","a",")">>
    /\ norm = <<"R","e","p","u","b","l","i","c"," ","o","f"," ","t","h","e"," ","C","o","n","g","o">>
    /\ norm = AliasOf(<<"C","o","n","g","o">>)

\* C9: "korea" holds the marker word "ore": both labels are rejected at line 70
C9_KoreaRejectedAsMarkerWord ==
    /\ raw \in CommaExempt
    /\ norm = None
    /\ norm_line = 70

=============================================================================
